---- MODULE Spec2Model ----
(***************************************************************************)
(* Model of scripts/deploy-ocr-update.sh, the DeepSeek OCR deployment      *)
(* pipeline: package the docker source, upload it, start a CodeBuild       *)
(* build, poll the build, force a new ECS deployment, poll the rollout,    *)
(* run one health check and print a summary.  The script runs under        *)
(* `set -e`, so a simple command that returns non-zero ends the run with   *)
(* that command's status.                                                  *)
(*                                                                         *)
(* pc is the position of the shell in the script.  The four terminal       *)
(* positions are the places where the process ends:                        *)
(*   BUILD_FAILED   `exit 1` at line 76                                    *)
(*   DEPLOY_FAILED  `exit 1` at line 122                                   *)
(*   DONE           end of the script after the summary (line 163)         *)
(*   ABORTED        a failing command under `set -e` (line 8)              *)
(***************************************************************************)
EXTENDS Integers, Sequences, FiniteSets, TLC

VARIABLES
    pc,                  \* position in the script
    exitCode,            \* process exit status, NoExit while running
    rc,                  \* $?: status of the last command that was run
    env,                 \* the environment the script was started in
    AWS_REGION,          \* line 12
    AWS_ACCOUNT_ID,      \* line 13
    AWS_PROFILE,         \* line 14
    BUILD_STATUS,        \* line 62
    DEPLOYMENT_COMPLETE, \* line 99
    ELAPSED_TIME,        \* line 101
    DEPLOYMENT_STATUS,   \* line 104: the JSON document describe-services printed
    RUNNING_COUNT,       \* line 111: text printed by jq -r
    DESIRED_COUNT,       \* line 112
    ROLLOUT_STATE,       \* line 113
    HEALTH_CHECK,        \* line 140
    healthResponse,      \* what the load balancer answered to the curl of line 140
    warned,              \* the line 130 warning has been printed
    nUpload,             \* calls of s3 cp
    nUpdateProject,      \* calls of codebuild update-project
    nStartBuild,         \* calls of codebuild start-build
    nBuildPolls,         \* calls of codebuild batch-get-builds (saturating)
    nForceRedeploy,      \* calls of ecs update-service --force-new-deployment
    nDeployPolls,        \* calls of ecs describe-services
    nHealth,             \* health requests issued by curl
    probeSeconds,        \* seconds one describe-services call takes in this run
    stageClock,          \* wall-clock seconds since the deployment loop was entered
    settleDelay,         \* seconds slept between the deployment loop and the curl
    progress,            \* the progress line last written by echo -ne (lines 68, 115)
    nBuildNotes,         \* progress lines written by the build loop (saturating)
    nDeployNotes,        \* progress lines written by the deployment loop
    reported,            \* the outcome messages printed so far
    hpc,                 \* handler: position of the invocation
    event,               \* handler: the event of the invocation
    FILES_BUCKET,        \* handler: process.env.FILES_BUCKET || ''
    ALB_URL,             \* handler: process.env.ALB_URL
    fetches,             \* handler: state of the S3 fetch started for each key
    settled,             \* handler: indices of the fetches in the order they settled
    files,               \* handler: files appended to the form of the OCR request
    nS3Get,              \* handler: GetObject requests sent
    nOcrRequests,        \* handler: requests sent to the OCR backend, per endpoint
    response,            \* handler: the value the handler returned
    objects,             \* S3: locations (bucket, key) that hold the object
    call,                \* S3: the operation in progress and its arguments
    spc,                 \* S3: position inside the operation
    destination,         \* S3: destination (bucket, key) computed by a move
    outcome,             \* S3: what the promise of the operation settled with
    nCopy,               \* S3: CopyObject commands sent
    nDelete              \* S3: DeleteObject commands sent

vars == <<pc, exitCode, rc, env, AWS_REGION, AWS_ACCOUNT_ID, AWS_PROFILE,
          healthResponse, nUpload, nUpdateProject, probeSeconds, stageClock,
          settleDelay, BUILD_STATUS, DEPLOYMENT_COMPLETE, ELAPSED_TIME,
          DEPLOYMENT_STATUS, RUNNING_COUNT, DESIRED_COUNT, ROLLOUT_STATE,
          HEALTH_CHECK, warned, nStartBuild, nBuildPolls, nForceRedeploy,
          nDeployPolls, nHealth, progress, nBuildNotes, nDeployNotes, reported,
          hpc, event, FILES_BUCKET, ALB_URL, fetches, settled, files, nS3Get,
          nOcrRequests, response, objects, call, spc, destination, outcome,
          nCopy, nDelete>>

(***************************************************************************)
(* Bounds of the model.                                                    *)
(***************************************************************************)
\* largest task count the container scheduler reports
MaxCount == 1
\* one task count that is printed with two digits
LargeCount == 10
\* the build poll counter saturates here; the loop itself is not bounded
MaxBuildPolls == 2
\* longest describe-services call, in seconds
MaxProbeSeconds == 1

(***************************************************************************)
(* Program constants.                                                      *)
(***************************************************************************)
MAX_WAIT_TIME == 600
PollInterval == 10
NoExit == -1
\* JSON null inside a describe-services document
JNull == -1

\* statuses a failing simple command can return; `cd` returns 1
CmdFail == {1, 2, 255}

Terminal == {"BUILD_FAILED", "DEPLOY_FAILED", "DONE", "ABORTED"}

\* codebuild buildStatus values as printed by --output text; "None" is what
\* the CLI prints when the queried field is absent
BuildStatuses == {"IN_PROGRESS", "PENDING", "None",
                  "SUCCEEDED", "FAILED", "FAULT", "TIMED_OUT", "STOPPED"}

RolloutStates == {"IN_PROGRESS", "COMPLETED", "FAILED", "null"}

Counts == (0 .. MaxCount) \cup {LargeCount, JNull}

\* documents describe-services can print for the --query of line 108
DeploymentStatuses == [Running : Counts, Desired : Counts, RolloutState : RolloutStates]

(***************************************************************************)
(* jq -r: a number is printed in decimal, null as the word null.           *)
(***************************************************************************)
Digits == <<"0", "1", "2", "3", "4", "5", "6", "7", "8", "9">>

RECURSIVE ToDecimal(_)
ToDecimal(n) ==
    IF n < 10 THEN <<Digits[n + 1]>>
    ELSE Append(ToDecimal(n \div 10), Digits[(n % 10) + 1])

JqRaw(v) == IF v = JNull THEN <<"n", "u", "l", "l">> ELSE ToDecimal(v)

(***************************************************************************)
(* Line 117: the three string tests of the convergence condition.          *)
(***************************************************************************)
\* the same test without the desired != 0 guard
ConvergedNoZeroGuard(rollout, running, desired) ==
    /\ rollout = "COMPLETED"
    /\ running = desired

Converged(rollout, running, desired) ==
    /\ rollout = "COMPLETED"
    /\ running = desired
    /\ desired # <<"0">>

\* the failure test with a misspelt state name
RolloutFailedTypo(rollout) == rollout = "FAILURE"

\* the failure test taking every state it does not know for a failure
RolloutFailedLoose(rollout) == rollout \notin {"COMPLETED", "IN_PROGRESS"}

\* line 120
RolloutFailed(rollout) == rollout = "FAILED"

\* the success test also accepting a stopped build
BuildSucceededOrStopped(s) == s \in {"SUCCEEDED", "STOPPED"}

\* line 70
BuildSucceeded(s) == s = "SUCCEEDED"

\* the failure test with STOPPED left out
BuildFailedNoStopped(s) == s \in {"FAILED", "FAULT", "TIMED_OUT"}

\* line 73
BuildFailed(s) == s \in {"FAILED", "FAULT", "TIMED_OUT", "STOPPED"}

\* the loop condition with -le in place of -lt
DeployLoopContinuesInclusive(complete, elapsed) ==
    /\ complete = FALSE
    /\ elapsed <= MAX_WAIT_TIME

\* line 103: the loop condition
DeployLoopContinues(complete, elapsed) ==
    /\ complete = FALSE
    /\ elapsed < MAX_WAIT_TIME

(***************************************************************************)
(* Line 140: curl -s URL/health | jq -r '.status' 2>/dev/null || echo      *)
(* failed.  curl -s prints the body whatever the HTTP status is and prints *)
(* nothing on a transport error; without pipefail the pipeline's status is *)
(* jq's.  jq prints the status field of an object (null when absent),      *)
(* prints nothing for empty input and fails on anything else.              *)
(***************************************************************************)
BodyKinds == {"object", "noStatus", "garbage", "array", "empty"}
HealthValues == {"healthy", "unhealthy"}
HttpCodes == {200, 500}
\* a transport error has no HTTP status and no body; only an object with a
\* status field has a status value
HealthResponses ==
    {r \in [transport : {"ok", "error"}, http : HttpCodes \cup {0},
            kind : BodyKinds, status : HealthValues \cup {""}] :
        /\ (r.transport = "error") <=> (r.http = 0)
        /\ r.transport = "error" => r.kind = "empty"
        /\ (r.kind = "object") <=> (r.status # "")}

\* before the request
NoResponse == [transport |-> "none", http |-> 0, kind |-> "empty", status |-> ""]

CurlOutput(r) == IF r.transport = "error" THEN "empty" ELSE r.kind

HealthCheckOf(r) ==
    LET body == CurlOutput(r) IN
    CASE body = "object"   -> r.status
      [] body = "noStatus" -> "null"
      [] body = "empty"    -> ""
      [] OTHER             -> "failed"

(***************************************************************************)
(* Lines 10-18: configuration.  ${VAR:-default} yields the default when    *)
(* the variable is unset or empty; an unset variable expands to the empty  *)
(* text, so the environment is a function from names to texts.             *)
(***************************************************************************)
EnvNames == {"AWS_REGION", "AWS_ACCOUNT_ID", "AWS_PROFILE"}
Environments == [EnvNames -> {"", "custom"}]
EmptyEnv == [n \in EnvNames |-> ""]

\* the plain expansion ${VAR}, which has no default
ResolveNoDefault(value, default) == value

Resolve(value, default) == IF value = "" THEN default ELSE value

\* line 138
SettleSeconds == 30

(***************************************************************************)
(* Initial state: the shell is at line 10 and no script variable is set.   *)
(* e is the environment of the process, latency the number of seconds a    *)
(* describe-services call takes in this run.                               *)
(***************************************************************************)
Start(e, latency) ==
    /\ pc = "config"
    /\ exitCode = NoExit
    /\ rc = 0
    /\ env = e
    /\ AWS_REGION = ""
    /\ AWS_ACCOUNT_ID = ""
    /\ AWS_PROFILE = ""
    /\ BUILD_STATUS = ""
    /\ DEPLOYMENT_COMPLETE = FALSE
    /\ ELAPSED_TIME = 0
    /\ DEPLOYMENT_STATUS = [Running |-> JNull, Desired |-> JNull, RolloutState |-> "null"]
    /\ RUNNING_COUNT = <<>>
    /\ DESIRED_COUNT = <<>>
    /\ ROLLOUT_STATE = ""
    /\ HEALTH_CHECK = ""
    /\ healthResponse = NoResponse
    /\ warned = FALSE
    /\ nUpload = 0
    /\ nUpdateProject = 0
    /\ nStartBuild = 0
    /\ nBuildPolls = 0
    /\ nForceRedeploy = 0
    /\ nDeployPolls = 0
    /\ nHealth = 0
    /\ probeSeconds = latency
    /\ stageClock = 0
    /\ settleDelay = 0
    /\ progress = <<>>
    /\ nBuildNotes = 0
    /\ nDeployNotes = 0
    /\ reported = {}

(***************************************************************************)
(* The two services of the repository next to the script: the OCR dispatch *)
(* handler and the S3 helpers.  A JavaScript string is the sequence of its *)
(* characters; a JSON value carries its type.                              *)
(***************************************************************************)
JUndefined == [type |-> "undefined"]
JString(s) == [type |-> "string", chars |-> s]
JArray(xs) == [type |-> "array", items |-> xs]

\* no value has been returned
NoReply == [statusCode |-> 0, error |-> "", body |-> "none"]

\* the promise of an S3 helper before it settles
Unsettled == [state |-> "pending", type |-> ""]

\* no invocation of the handler has started
DispatchIdle ==
    /\ hpc = "idle"
    /\ event = [parsed |-> "none"]
    /\ FILES_BUCKET = <<>>
    /\ ALB_URL = FALSE
    /\ fetches = <<>>
    /\ settled = <<>>
    /\ files = <<>>
    /\ nS3Get = 0
    /\ nOcrRequests = [batch |-> 0, image |-> 0, pdf |-> 0]
    /\ response = NoReply

\* no S3 helper has been called and the bucket holds the object at objs
StoreWith(objs) ==
    /\ objects = objs
    /\ call = [fn |-> "none"]
    /\ spc = "idle"
    /\ destination = <<"", <<>> >>
    /\ outcome = Unsettled
    /\ nCopy = 0
    /\ nDelete = 0

\* a run with nothing set in the environment and instantaneous probes
Init == Start(EmptyEnv, 0) /\ DispatchIdle /\ StoreWith({})

\* a run with any environment
EnvInit == DispatchIdle /\ StoreWith({}) /\ \E e \in Environments : Start(e, 0)

\* a run in which every describe-services call takes the same 0..MaxProbeSeconds
ClockInit == DispatchIdle /\ StoreWith({}) /\ \E l \in 0 .. MaxProbeSeconds : Start(EmptyEnv, l)

envVars == <<env, AWS_REGION, AWS_ACCOUNT_ID, AWS_PROFILE>>
prepVars == <<nUpload, nUpdateProject>>
buildVars == <<BUILD_STATUS, nStartBuild, nBuildPolls>>
deployVars == <<DEPLOYMENT_COMPLETE, ELAPSED_TIME, DEPLOYMENT_STATUS, RUNNING_COUNT,
                DESIRED_COUNT, ROLLOUT_STATE, warned, nForceRedeploy, nDeployPolls>>
healthVars == <<HEALTH_CHECK, healthResponse, nHealth>>
timeVars == <<probeSeconds, stageClock, settleDelay>>
noteVars == <<progress, nBuildNotes, nDeployNotes, reported>>
dispatchVars == <<hpc, event, FILES_BUCKET, ALB_URL, fetches, settled, files, nS3Get,
                  nOcrRequests, response>>
storeVars == <<objects, call, spc, destination, outcome, nCopy, nDelete>>
serviceVars == <<dispatchVars, storeVars>>
pipelineVars == <<pc, exitCode, rc, envVars, prepVars, buildVars, deployVars, healthVars,
                  timeVars, noteVars>>

\* set -e: the run ends with the status of the failing command
Abort(code) ==
    /\ pc' = "ABORTED"
    /\ exitCode' = code
    /\ rc' = code

\* a command that returned 0: the run goes on
Continue(next) ==
    /\ pc' = next
    /\ rc' = 0
    /\ UNCHANGED exitCode

\* lines 10-24: the three values taken from the environment
Configure ==
    /\ pc = "config"
    /\ AWS_REGION' = Resolve(env["AWS_REGION"], "us-east-1")
    /\ AWS_ACCOUNT_ID' = Resolve(env["AWS_ACCOUNT_ID"], "098305555551")
    /\ AWS_PROFILE' = Resolve(env["AWS_PROFILE"], "miketran+SA")
    /\ pc' = "start"
    /\ UNCHANGED <<noteVars, serviceVars, exitCode, rc, env, prepVars, buildVars, deployVars, healthVars, timeVars>>

\* lines 26-30: banner and cd docker
Prepare ==
    /\ pc = "start"
    /\ \/ Continue("zip")
       \/ Abort(1)
    /\ UNCHANGED <<noteVars, serviceVars, envVars, prepVars, buildVars, deployVars, healthVars, timeVars>>

\* lines 31-32: mktemp and zip
Package ==
    /\ pc = "zip"
    /\ \/ Continue("upload")
       \/ \E c \in CmdFail : Abort(c)
    /\ UNCHANGED <<noteVars, serviceVars, envVars, prepVars, buildVars, deployVars, healthVars, timeVars>>

\* lines 35-36: aws s3 cp
Upload ==
    /\ pc = "upload"
    /\ nUpload' = nUpload + 1
    /\ \/ Continue("updateProject")
       \/ \E c \in CmdFail : Abort(c)
    /\ UNCHANGED <<noteVars, serviceVars, envVars, nUpdateProject, buildVars, deployVars, healthVars, timeVars>>

\* lines 39-44: aws codebuild update-project
UpdateProject ==
    /\ pc = "updateProject"
    /\ nUpdateProject' = nUpdateProject + 1
    /\ \/ Continue("startBuild")
       \/ \E c \in CmdFail : Abort(c)
    /\ UNCHANGED <<noteVars, serviceVars, envVars, nUpload, buildVars, deployVars, healthVars, timeVars>>

\* start-build issued again after a failure, up to three times
StartBuildRetry ==
    /\ pc = "startBuild"
    /\ nStartBuild < 3
    /\ nStartBuild' = nStartBuild + 1
    /\ \/ Continue("buildPoll")
       \/ /\ \E c \in CmdFail : rc' = c
          /\ UNCHANGED <<pc, exitCode>>
    /\ UNCHANGED <<noteVars, serviceVars, envVars, prepVars, BUILD_STATUS, nBuildPolls, deployVars, healthVars, timeVars>>

\* lines 47-59: aws codebuild start-build
StartBuild ==
    /\ pc = "startBuild"
    /\ nStartBuild' = nStartBuild + 1
    /\ \/ Continue("buildPoll")
       \/ \E c \in CmdFail : Abort(c)
    /\ UNCHANGED <<noteVars, serviceVars, envVars, prepVars, BUILD_STATUS, nBuildPolls, deployVars, healthVars, timeVars>>

Min(a, b) == IF a < b THEN a ELSE b

\* the build probe with `|| true`: a failing call leaves BUILD_STATUS empty
\* and the loop goes on
BuildPollMasked ==
    /\ pc = "buildPoll"
    /\ nBuildPolls' = Min(nBuildPolls + 1, MaxBuildPolls)
    /\ \/ \E s \in BuildStatuses :
            /\ BUILD_STATUS' = s
            /\ rc' = 0
            /\ progress' = <<"Build status", s>>
            /\ nBuildNotes' = Min(nBuildNotes + 1, MaxBuildPolls)
            /\ IF BuildSucceeded(s)
                 THEN pc' = "forceRedeploy" /\ UNCHANGED <<exitCode, reported>>
               ELSE IF BuildFailed(s)
                 THEN /\ pc' = "BUILD_FAILED"
                      /\ exitCode' = 1
                      /\ reported' = reported \cup {"BuildFailed"}
               ELSE pc' = "buildSleep" /\ UNCHANGED <<exitCode, reported>>
       \/ /\ \E c \in CmdFail : rc' = c
          /\ pc' = "buildSleep"
          /\ UNCHANGED <<BUILD_STATUS, exitCode, progress, nBuildNotes, reported>>
    /\ UNCHANGED <<nDeployNotes, serviceVars, envVars, prepVars, nStartBuild, deployVars, healthVars, timeVars>>

\* lines 61-77: one pass of the build loop up to the sleep
BuildPoll ==
    /\ pc = "buildPoll"
    /\ nBuildPolls' = Min(nBuildPolls + 1, MaxBuildPolls)
    /\ \/ \E s \in BuildStatuses :
            /\ BUILD_STATUS' = s
            /\ rc' = 0
            /\ progress' = <<"Build status", s>>
            /\ nBuildNotes' = Min(nBuildNotes + 1, MaxBuildPolls)
            /\ IF BuildSucceeded(s)
                 THEN pc' = "forceRedeploy" /\ UNCHANGED <<exitCode, reported>>
               ELSE IF BuildFailed(s)
                 THEN /\ pc' = "BUILD_FAILED"
                      /\ exitCode' = 1
                      /\ reported' = reported \cup {"BuildFailed"}
               ELSE pc' = "buildSleep" /\ UNCHANGED <<exitCode, reported>>
       \/ /\ \E c \in CmdFail : Abort(c)
          /\ UNCHANGED <<BUILD_STATUS, progress, nBuildNotes, reported>>
    /\ UNCHANGED <<nDeployNotes, serviceVars, envVars, prepVars, nStartBuild, deployVars, healthVars, timeVars>>

\* the build loop giving up once the poll counter is at its bound
BuildSleepTimeout ==
    /\ pc = "buildSleep"
    /\ IF nBuildPolls >= MaxBuildPolls
         THEN pc' = "BUILD_FAILED" /\ exitCode' = 1
         ELSE pc' = "buildPoll" /\ UNCHANGED exitCode
    /\ UNCHANGED <<noteVars, serviceVars, rc, envVars, prepVars, buildVars, deployVars, healthVars, timeVars>>

\* line 79
BuildSleep ==
    /\ pc = "buildSleep"
    /\ pc' = "buildPoll"
    /\ UNCHANGED <<noteVars, serviceVars, exitCode, rc, envVars, prepVars, buildVars, deployVars, healthVars, timeVars>>

\* line 115: the text echo -ne writes from the three values jq printed
ProgressLine(d) == <<"Deployment", JqRaw(d.Running), JqRaw(d.Desired), d.RolloutState>>

\* lines 83-101: aws ecs update-service, then the loop variables are set
ForceRedeploy ==
    /\ pc = "forceRedeploy"
    /\ nForceRedeploy' = nForceRedeploy + 1
    /\ \/ /\ Continue("deployTest")
          /\ DEPLOYMENT_COMPLETE' = FALSE
          /\ ELAPSED_TIME' = 0
          /\ stageClock' = 0
       \/ /\ \E c \in CmdFail : Abort(c)
          /\ UNCHANGED <<DEPLOYMENT_COMPLETE, ELAPSED_TIME, stageClock>>
    /\ UNCHANGED <<noteVars, serviceVars, envVars, prepVars, buildVars, DEPLOYMENT_STATUS, RUNNING_COUNT,
                   DESIRED_COUNT, ROLLOUT_STATE, warned, nDeployPolls, healthVars,
                   probeSeconds, settleDelay>>

\* line 103
DeployLoopTest ==
    /\ pc = "deployTest"
    /\ pc' = IF DeployLoopContinues(DEPLOYMENT_COMPLETE, ELAPSED_TIME)
               THEN "deployPoll" ELSE "timeoutCheck"
    /\ UNCHANGED <<noteVars, serviceVars, exitCode, rc, envVars, prepVars, buildVars, deployVars, healthVars, timeVars>>

\* the deployment pass that prints no progress line when the rollout has failed
DeployPollQuietVerdict ==
    /\ pc = "deployPoll"
    /\ nDeployPolls' = nDeployPolls + 1
    /\ stageClock' = stageClock + probeSeconds
    /\ \/ \E d \in DeploymentStatuses :
            /\ DEPLOYMENT_STATUS' = d
            /\ RUNNING_COUNT' = JqRaw(d.Running)
            /\ DESIRED_COUNT' = JqRaw(d.Desired)
            /\ ROLLOUT_STATE' = d.RolloutState
            /\ rc' = 0
            /\ IF Converged(d.RolloutState, JqRaw(d.Running), JqRaw(d.Desired))
                 THEN /\ DEPLOYMENT_COMPLETE' = TRUE
                      /\ progress' = ProgressLine(d)
                      /\ nDeployNotes' = nDeployNotes + 1
                      /\ pc' = "deploySleep"
                      /\ UNCHANGED <<exitCode, reported>>
               ELSE IF RolloutFailed(d.RolloutState)
                 THEN /\ pc' = "DEPLOY_FAILED"
                      /\ exitCode' = 1
                      /\ reported' = reported \cup {"DeploymentFailed"}
                      /\ UNCHANGED <<DEPLOYMENT_COMPLETE, progress, nDeployNotes>>
               ELSE /\ pc' = "deploySleep"
                    /\ progress' = ProgressLine(d)
                    /\ nDeployNotes' = nDeployNotes + 1
                    /\ UNCHANGED <<exitCode, DEPLOYMENT_COMPLETE, reported>>
       \/ /\ \E c \in CmdFail : Abort(c)
          /\ UNCHANGED <<DEPLOYMENT_STATUS, RUNNING_COUNT, DESIRED_COUNT,
                         ROLLOUT_STATE, DEPLOYMENT_COMPLETE, progress, nDeployNotes,
                         reported>>
    /\ UNCHANGED <<nBuildNotes, serviceVars, envVars, prepVars, buildVars, ELAPSED_TIME,
                   warned, nForceRedeploy, healthVars, probeSeconds, settleDelay>>

\* lines 104-123: one pass of the deployment loop up to the sleep
DeployPoll ==
    /\ pc = "deployPoll"
    /\ nDeployPolls' = nDeployPolls + 1
    /\ stageClock' = stageClock + probeSeconds
    /\ \/ \E d \in DeploymentStatuses :
            /\ DEPLOYMENT_STATUS' = d
            /\ RUNNING_COUNT' = JqRaw(d.Running)
            /\ DESIRED_COUNT' = JqRaw(d.Desired)
            /\ ROLLOUT_STATE' = d.RolloutState
            /\ rc' = 0
            /\ progress' = ProgressLine(d)
            /\ nDeployNotes' = nDeployNotes + 1
            /\ IF Converged(d.RolloutState, JqRaw(d.Running), JqRaw(d.Desired))
                 THEN /\ DEPLOYMENT_COMPLETE' = TRUE
                      /\ pc' = "deploySleep"
                      /\ UNCHANGED <<exitCode, reported>>
               ELSE IF RolloutFailed(d.RolloutState)
                 THEN /\ pc' = "DEPLOY_FAILED"
                      /\ exitCode' = 1
                      /\ reported' = reported \cup {"DeploymentFailed"}
                      /\ UNCHANGED DEPLOYMENT_COMPLETE
               ELSE /\ pc' = "deploySleep"
                    /\ UNCHANGED <<exitCode, DEPLOYMENT_COMPLETE, reported>>
       \/ /\ \E c \in CmdFail : Abort(c)
          /\ UNCHANGED <<DEPLOYMENT_STATUS, RUNNING_COUNT, DESIRED_COUNT,
                         ROLLOUT_STATE, DEPLOYMENT_COMPLETE, progress, nDeployNotes,
                         reported>>
    /\ UNCHANGED <<nBuildNotes, serviceVars, envVars, prepVars, buildVars, ELAPSED_TIME,
                   warned, nForceRedeploy, healthVars, probeSeconds, settleDelay>>

\* the loop left right after the first sleep
DeploySleepBreak ==
    /\ pc = "deploySleep"
    /\ ELAPSED_TIME' = ELAPSED_TIME + PollInterval
    /\ stageClock' = stageClock + PollInterval
    /\ pc' = "timeoutCheck"
    /\ UNCHANGED <<noteVars, serviceVars, exitCode, rc, envVars, prepVars, buildVars, DEPLOYMENT_COMPLETE,
                   DEPLOYMENT_STATUS, RUNNING_COUNT, DESIRED_COUNT, ROLLOUT_STATE, warned,
                   nForceRedeploy, nDeployPolls, healthVars, probeSeconds, settleDelay>>

\* lines 125-126
DeploySleep ==
    /\ pc = "deploySleep"
    /\ ELAPSED_TIME' = ELAPSED_TIME + PollInterval
    /\ stageClock' = stageClock + PollInterval
    /\ pc' = "deployTest"
    /\ UNCHANGED <<noteVars, serviceVars, exitCode, rc, envVars, prepVars, buildVars, DEPLOYMENT_COMPLETE,
                   DEPLOYMENT_STATUS, RUNNING_COUNT, DESIRED_COUNT, ROLLOUT_STATE, warned,
                   nForceRedeploy, nDeployPolls, healthVars, probeSeconds, settleDelay>>

\* the timeout treated as fatal
TimeoutCheckFatal ==
    /\ pc = "timeoutCheck"
    /\ warned' = (DEPLOYMENT_COMPLETE = FALSE)
    /\ IF DEPLOYMENT_COMPLETE = FALSE
         THEN pc' = "DEPLOY_FAILED" /\ exitCode' = 1
         ELSE pc' = "settle" /\ UNCHANGED exitCode
    /\ reported' = IF warned' THEN reported \cup {"DeploymentTimedOut"} ELSE reported
    /\ UNCHANGED <<progress, nBuildNotes, nDeployNotes, serviceVars, rc, envVars, prepVars, buildVars, DEPLOYMENT_COMPLETE, ELAPSED_TIME,
                   DEPLOYMENT_STATUS, RUNNING_COUNT, DESIRED_COUNT, ROLLOUT_STATE,
                   nForceRedeploy, nDeployPolls, healthVars, timeVars>>

\* the warning decided by the elapsed time instead of the flag
TimeoutCheckByElapsed ==
    /\ pc = "timeoutCheck"
    /\ warned' = (ELAPSED_TIME >= MAX_WAIT_TIME)
    /\ pc' = "settle"
    /\ reported' = IF warned' THEN reported \cup {"DeploymentTimedOut"} ELSE reported
    /\ UNCHANGED <<progress, nBuildNotes, nDeployNotes, serviceVars, exitCode, rc, envVars, prepVars, buildVars, DEPLOYMENT_COMPLETE,
                   ELAPSED_TIME, DEPLOYMENT_STATUS, RUNNING_COUNT, DESIRED_COUNT,
                   ROLLOUT_STATE, nForceRedeploy, nDeployPolls, healthVars, timeVars>>

\* lines 129-131
TimeoutCheck ==
    /\ pc = "timeoutCheck"
    /\ warned' = (DEPLOYMENT_COMPLETE = FALSE)
    /\ pc' = "settle"
    /\ reported' = IF warned' THEN reported \cup {"DeploymentTimedOut"} ELSE reported
    /\ UNCHANGED <<progress, nBuildNotes, nDeployNotes, serviceVars, exitCode, rc, envVars, prepVars, buildVars, DEPLOYMENT_COMPLETE,
                   ELAPSED_TIME, DEPLOYMENT_STATUS, RUNNING_COUNT, DESIRED_COUNT,
                   ROLLOUT_STATE, nForceRedeploy, nDeployPolls, healthVars, timeVars>>

\* step 8 without the sleep when the loop timed out
SettleOnlyWhenConverged ==
    /\ pc = "settle"
    /\ settleDelay' = IF warned THEN settleDelay ELSE SettleSeconds
    /\ pc' = "health"
    /\ UNCHANGED <<noteVars, serviceVars, exitCode, rc, envVars, prepVars, buildVars, deployVars, healthVars,
                   probeSeconds, stageClock>>

\* lines 134-138: sleep 30
Settle ==
    /\ pc = "settle"
    /\ settleDelay' = SettleSeconds
    /\ pc' = "health"
    /\ UNCHANGED <<noteVars, serviceVars, exitCode, rc, envVars, prepVars, buildVars, deployVars, healthVars,
                   probeSeconds, stageClock>>

\* the health pipeline without `|| echo "failed"`: a failing jq ends the run
HealthProbeNoFallback ==
    /\ pc = "health"
    /\ nHealth' = nHealth + 1
    /\ \E r \in HealthResponses :
         /\ healthResponse' = r
         /\ HEALTH_CHECK' = HealthCheckOf(r)
         /\ IF HealthCheckOf(r) = "failed"
              THEN Abort(2)
              ELSE Continue("report")
    /\ UNCHANGED <<noteVars, serviceVars, envVars, prepVars, buildVars, deployVars, timeVars>>

\* line 140
HealthProbe ==
    /\ pc = "health"
    /\ nHealth' = nHealth + 1
    /\ \E r \in HealthResponses :
         /\ healthResponse' = r
         /\ HEALTH_CHECK' = HealthCheckOf(r)
    /\ Continue("report")
    /\ UNCHANGED <<noteVars, serviceVars, envVars, prepVars, buildVars, deployVars, timeVars>>

\* lines 142-150: either branch only prints; line 144 is the banner
\* "Deployment completed successfully!", line 147 the health warning
HealthReport ==
    /\ pc = "report"
    /\ pc' = "summary"
    /\ reported' = reported \cup
                     {IF HEALTH_CHECK = "healthy" THEN "Success" ELSE "HealthCheckDegraded"}
    /\ UNCHANGED <<progress, nBuildNotes, nDeployNotes, serviceVars, exitCode, rc, envVars, prepVars, buildVars, deployVars, healthVars, timeVars>>

\* the summary ending the run with a failure status when the service is not healthy
SummaryHealthExit ==
    /\ pc = "summary"
    /\ pc' = "DONE"
    /\ exitCode' = IF HEALTH_CHECK = "healthy" THEN 0 ELSE 1
    /\ UNCHANGED <<noteVars, serviceVars, rc, envVars, prepVars, buildVars, deployVars, healthVars, timeVars>>

\* lines 152-163: cleanup, summary, end of script
Summary ==
    /\ pc = "summary"
    /\ pc' = "DONE"
    /\ exitCode' = 0
    /\ UNCHANGED <<noteVars, serviceVars, rc, envVars, prepVars, buildVars, deployVars, healthVars, timeVars>>

Next ==
    \/ Configure
    \/ Prepare
    \/ Package
    \/ Upload
    \/ UpdateProject
    \/ StartBuild
    \/ BuildPoll
    \/ BuildSleep
    \/ ForceRedeploy
    \/ DeployLoopTest
    \/ DeployPoll
    \/ DeploySleep
    \/ TimeoutCheck
    \/ Settle
    \/ HealthProbe
    \/ HealthReport
    \/ Summary

Spec == Init /\ [][Next]_vars

\* the shell is one sequential process: whenever a command is pending it runs
FairSpec == Spec /\ WF_vars(Next)

\* lines 10-55: the script up to the start of the build
StartupNext ==
    \/ Configure
    \/ Prepare
    \/ Package
    \/ Upload
    \/ UpdateProject
    \/ StartBuild

\* the startup of the script in any environment
EnvSpec == EnvInit /\ [][StartupNext]_vars

\* the same script with describe-services calls that take time
ClockSpec == ClockInit /\ [][Next]_vars

(***************************************************************************)
(* Bound of the services: the longest s3Keys array of a batch request.     *)
(***************************************************************************)
MaxKeys == 2

(***************************************************************************)
(* String operations the handler and the S3 helpers use.                   *)
(***************************************************************************)
\* String.prototype.toLowerCase, on the capital letters the keys contain
toLowerCase(s) ==
    [i \in 1 .. Len(s) |->
        CASE s[i] = "P" -> "p"
          [] s[i] = "D" -> "d"
          [] s[i] = "F" -> "f"
          [] OTHER -> s[i]]

\* String.prototype.endsWith
endsWith(s, suffix) ==
    /\ Len(suffix) <= Len(s)
    /\ SubSeq(s, Len(s) - Len(suffix) + 1, Len(s)) = suffix

\* key.split('/').pop(): the characters after the last slash
RECURSIVE LastSegment(_)
LastSegment(s) ==
    IF s = <<>> \/ s[Len(s)] = "/" THEN <<>>
    ELSE Append(LastSegment(SubSeq(s, 1, Len(s) - 1)), s[Len(s)])

\* a JSON value in a boolean context: undefined and '' are falsy, an array
\* (even an empty one) is truthy
Truthy(v) == v.type = "array" \/ (v.type = "string" /\ v.chars # <<>>)

\* value || fallback, for an optional string argument
OrElse(v, fallback) == IF Truthy(v) THEN v.chars ELSE fallback

(***************************************************************************)
(* S3.ts: errors.  NoError stands for "nothing was thrown".                *)
(***************************************************************************)
NoError == [name |-> "", type |-> ""]
S3ServiceError(type) == [name |-> "S3ServiceError", type |-> type]
SdkError(name) == [name |-> name, type |-> ""]

\* errors an S3 command can fail with: the four names formatS3Error knows
\* and one it does not
SdkErrors == {SdkError(n) : n \in {"NoSuchKey", "AccessDenied", "NoSuchBucket",
                                    "NetworkError", "TimeoutError"}}

formatS3Error(error) ==
    IF error = NoError THEN S3ServiceError("UNKNOWN_ERROR")
    ELSE IF error.name = "NoSuchKey" THEN S3ServiceError("FILE_NOT_FOUND")
    ELSE IF error.name = "AccessDenied" THEN S3ServiceError("PERMISSION_DENIED")
    ELSE IF error.name = "NoSuchBucket" THEN S3ServiceError("BUCKET_NOT_FOUND")
    ELSE IF error.name = "NetworkError" THEN S3ServiceError("NETWORK_ERROR")
    ELSE S3ServiceError("UNKNOWN_ERROR")

\* the error validateInputs throws, NoError when it returns
validateInputs(bucketName, key) ==
    IF bucketName = <<>> THEN S3ServiceError("INVALID_INPUT")
    ELSE IF key = <<>> THEN S3ServiceError("INVALID_INPUT")
    ELSE NoError

Resolved == [state |-> "resolved", type |-> ""]
Rejected(error) == [state |-> "rejected", type |-> error.type]

\* how a GetObject can end for getFileAsBuffer: the body is read to its end,
\* the command fails, the response has no Body (getFile throws a plain
\* Error), or the body stream emits an error
Delivered == [error |-> NoError, phase |-> "send"]
GetFailures ==
    {[error |-> e, phase |-> "send"] : e \in SdkErrors \cup {SdkError("Error")}}
    \cup {[error |-> SdkError("NetworkError"), phase |-> "stream"]}
GetResults == {Delivered} \cup GetFailures

\* the promise getFileAsBuffer returns once the GetObject ended with result;
\* a stream error is formatted at line 210 and again at line 214
getFileAsBuffer(bucketName, key, result) ==
    IF validateInputs(bucketName, key) # NoError
      THEN Rejected(formatS3Error(validateInputs(bucketName, key)))
    ELSE IF result.error = NoError THEN Resolved
    ELSE IF result.phase = "stream"
      THEN Rejected(formatS3Error(formatS3Error(result.error)))
    ELSE Rejected(formatS3Error(result.error))

(***************************************************************************)
(* The OCR dispatch handler.  Errors carry their class and, for            *)
(* ClientError and ServerError, their statusCode.                          *)
(***************************************************************************)
ErrorOf(class, statusCode) == [class |-> class, statusCode |-> statusCode]

errorHandler(error) ==
    IF error.class = "NotFoundError"
      THEN [statusCode |-> 404, error |-> "NotFound", body |-> "error"]
    ELSE IF error.class = "ValidationError"
      THEN [statusCode |-> 422, error |-> "ValidationError", body |-> "error"]
    ELSE IF error.class = "ClientError"
      THEN [statusCode |-> error.statusCode, error |-> "ClientError", body |-> "error"]
    ELSE IF error.class = "ServerError"
      THEN [statusCode |-> error.statusCode, error |-> "ServerError", body |-> "error"]
    ELSE [statusCode |-> 500, error |-> "InternalServerError", body |-> "error"]

getLambdaResponse == [statusCode |-> 200, error |-> "", body |-> "result"]

\* keys of the requests: a PDF with a capital extension, an image in a
\* folder, a text file
KeyPdf == <<"a", ".", "P", "D", "F">>
KeyPng == <<"d", "/", "b", ".", "p", "n", "g">>
KeyTxt == <<"c", ".", "t", "x", "t">>
BucketName == <<"A">>

PdfExtension == <<".", "p", "d", "f">>
ImageExtensions == {<<".", "j", "p", "g">>, <<".", "j", "p", "e", "g">>,
                    <<".", "p", "n", "g">>, <<".", "g", "i", "f">>,
                    <<".", "w", "e", "b", "p">>}

isPdf(key) == endsWith(toLowerCase(key), PdfExtension)
isImage(key) == \E e \in ImageExtensions : endsWith(toLowerCase(key), e)

\* values of body.s3Key and body.s3Keys; a key of an array may be ''
KeyLists == UNION {[1 .. n -> {KeyPdf, KeyPng, <<>>}] : n \in 0 .. MaxKeys}
S3KeyValues == {JUndefined, JString(<<>>), JString(KeyPdf), JString(KeyPng), JString(KeyTxt)}
S3KeysValues == {JUndefined, JString(KeyPdf)} \cup {JArray(ks) : ks \in KeyLists}

\* what JSON.parse(event.body) gives: it throws a SyntaxError, it returns
\* null (the body is the text null, or event.body itself is null), or it
\* returns an object
Events ==
    {[parsed |-> "SyntaxError"], [parsed |-> "null"]}
    \cup {[parsed |-> "object", s3Key |-> k, s3Keys |-> ks] :
            k \in S3KeyValues, ks \in S3KeysValues}

\* line 54
IsBatch(ev) == ev.parsed = "object" /\ Truthy(ev.s3Keys) /\ ev.s3Keys.type = "array"

\* the key the i-th fetch of the invocation reads
KeyAt(i) == IF IsBatch(event) THEN event.s3Keys.items[i] ELSE event.s3Key.chars

\* the call getFileAsBuffer(FILES_BUCKET, key) up to its first await: rejected
\* by validateInputs, or waiting for the GetObject it sent
StartFetch(bucket, key) ==
    IF validateInputs(bucket, key) # NoError
      THEN getFileAsBuffer(bucket, key, Delivered)
      ELSE Unsettled

\* lines 59-67: the file built from a key and the buffer read for it
FileOf(key) ==
    [buffer |-> key,
     filename |-> IF LastSegment(key) = <<>> THEN key ELSE LastSegment(key),
     contentType |-> IF isPdf(key) THEN "application/pdf" ELSE "image/jpeg"]

\* the array with the files in the order the fetches settled
PromiseAllBySettleOrder(keys, order) ==
    [j \in 1 .. Len(order) |-> FileOf(keys[order[j]])]

\* lines 57-69: Promise.all gives the results in the order of its input,
\* whatever the order the promises settled in
PromiseAll(keys, order) ==
    [i \in 1 .. Len(keys) |-> FileOf(keys[i])]

\* lines 358-364: the files are appended to the form one after the other
RECURSIVE appendFiles(_, _)
appendFiles(form, fs) ==
    IF fs = <<>> THEN form ELSE appendFiles(Append(form, Head(fs)), Tail(fs))

\* the catch of line 120: the handler returns what errorHandler builds
Throw(error) ==
    /\ hpc' = "returned"
    /\ response' = errorHandler(error)

\* lines 25-59 and 78-97: the handler up to its first await.  In batch
\* mode the map of line 58 calls getFileAsBuffer for every key before any
\* of the fetches can settle.
Invoke ==
    /\ hpc = "idle"
    /\ \E ev \in Events, bucket \in {<<>>, BucketName}, alb \in BOOLEAN :
         /\ event' = ev
         /\ FILES_BUCKET' = bucket
         /\ ALB_URL' = alb
         /\ IF ev.parsed = "SyntaxError"
              THEN Throw(ErrorOf("SyntaxError", 0)) /\ UNCHANGED <<fetches, nS3Get>>
            ELSE IF ev.parsed = "null"
              THEN Throw(ErrorOf("TypeError", 0)) /\ UNCHANGED <<fetches, nS3Get>>
            ELSE IF ~Truthy(ev.s3Key) /\ ~Truthy(ev.s3Keys)
              THEN Throw(ErrorOf("ClientError", 400)) /\ UNCHANGED <<fetches, nS3Get>>
            ELSE IF IsBatch(ev)
              THEN /\ fetches' = [i \in 1 .. Len(ev.s3Keys.items) |->
                                     StartFetch(bucket, ev.s3Keys.items[i])]
                   /\ nS3Get' = Cardinality({i \in 1 .. Len(ev.s3Keys.items) :
                                     StartFetch(bucket, ev.s3Keys.items[i]) = Unsettled})
                   /\ hpc' = "joining"
                   /\ UNCHANGED response
            ELSE IF ~Truthy(ev.s3Key)
              THEN Throw(ErrorOf("ClientError", 400)) /\ UNCHANGED <<fetches, nS3Get>>
            ELSE /\ fetches' = <<StartFetch(bucket, ev.s3Key.chars)>>
                 /\ nS3Get' = IF StartFetch(bucket, ev.s3Key.chars) = Unsettled THEN 1 ELSE 0
                 /\ hpc' = "fetching"
                 /\ UNCHANGED response
    /\ UNCHANGED <<settled, files, nOcrRequests, pipelineVars, storeVars>>

\* S3.ts 198-216: one GetObject ends and the promise of its fetch settles;
\* a fetch still in flight when the handler has returned settles as well
FetchSettles ==
    /\ \E i \in DOMAIN fetches, r \in GetResults :
         /\ fetches[i] = Unsettled
         /\ fetches' = [fetches EXCEPT ![i] = getFileAsBuffer(FILES_BUCKET, KeyAt(i), r)]
         /\ settled' = Append(settled, i)
    /\ UNCHANGED <<hpc, event, FILES_BUCKET, ALB_URL, files, nS3Get, nOcrRequests,
                   response, pipelineVars, storeVars>>

\* the join done with Promise.allSettled: once every fetch has settled the
\* batch request is sent with the files that could be read
JoinAllSettled ==
    /\ hpc = "joining"
    /\ \A i \in DOMAIN fetches : fetches[i] # Unsettled
    /\ LET ok == SelectSeq([i \in DOMAIN fetches |-> i], LAMBDA i : fetches[i] = Resolved)
           read == [j \in 1 .. Len(ok) |-> FileOf(event.s3Keys.items[ok[j]])]
       IN  IF read = <<>> \/ ~ALB_URL
             THEN Throw(ErrorOf("Error", 0)) /\ UNCHANGED <<files, nOcrRequests>>
             ELSE /\ files' = appendFiles(<<>>, read)
                  /\ nOcrRequests' = [nOcrRequests EXCEPT !.batch = @ + 1]
                  /\ hpc' = "batchRequest"
                  /\ UNCHANGED response
    /\ UNCHANGED <<event, FILES_BUCKET, ALB_URL, fetches, settled, nS3Get,
                   pipelineVars, storeVars>>

\* lines 57-71 and index.ts 327-393: the await of Promise.all ends, with the
\* rejection of a fetch or with all the files, and processBatch runs up to
\* its axios.post
Join ==
    /\ hpc = "joining"
    /\ IF \E i \in DOMAIN fetches : fetches[i].state = "rejected"
         THEN Throw(ErrorOf("S3ServiceError", 0)) /\ UNCHANGED <<files, nOcrRequests>>
         ELSE /\ \A i \in DOMAIN fetches : fetches[i] = Resolved
              /\ IF PromiseAll(event.s3Keys.items, settled) = <<>> \/ ~ALB_URL
                   THEN Throw(ErrorOf("Error", 0)) /\ UNCHANGED <<files, nOcrRequests>>
                   ELSE /\ files' = appendFiles(<<>>, PromiseAll(event.s3Keys.items, settled))
                        /\ nOcrRequests' = [nOcrRequests EXCEPT !.batch = @ + 1]
                        /\ hpc' = "batchRequest"
                        /\ UNCHANGED response
    /\ UNCHANGED <<event, FILES_BUCKET, ALB_URL, fetches, settled, nS3Get,
                   pipelineVars, storeVars>>

\* lines 97-115: the await of the single fetch ends; a PDF or an image is
\* sent to the backend, any other key is refused
SingleResume ==
    /\ hpc = "fetching"
    /\ fetches[1] # Unsettled
    /\ IF fetches[1].state = "rejected"
         THEN Throw(ErrorOf("S3ServiceError", 0)) /\ UNCHANGED nOcrRequests
       ELSE IF isPdf(event.s3Key.chars)
         THEN IF ~ALB_URL
                THEN Throw(ErrorOf("Error", 0)) /\ UNCHANGED nOcrRequests
                ELSE /\ nOcrRequests' = [nOcrRequests EXCEPT !.pdf = @ + 1]
                     /\ hpc' = "ocrRequest"
                     /\ UNCHANGED response
       ELSE IF isImage(event.s3Key.chars)
         THEN IF ~ALB_URL
                THEN Throw(ErrorOf("Error", 0)) /\ UNCHANGED nOcrRequests
                ELSE /\ nOcrRequests' = [nOcrRequests EXCEPT !.image = @ + 1]
                     /\ hpc' = "ocrRequest"
                     /\ UNCHANGED response
       ELSE Throw(ErrorOf("ClientError", 400)) /\ UNCHANGED nOcrRequests
    /\ UNCHANGED <<event, FILES_BUCKET, ALB_URL, fetches, settled, files, nS3Get,
                   pipelineVars, storeVars>>

\* the axios.post ends: the handler returns the result with status 200, or
\* handleAxiosError throws and the catch of line 120 answers
BackendResponds ==
    /\ hpc \in {"batchRequest", "ocrRequest"}
    /\ hpc' = "returned"
    /\ \/ response' = getLambdaResponse
       \/ response' = errorHandler(ErrorOf("Error", 0))
    /\ UNCHANGED <<event, FILES_BUCKET, ALB_URL, fetches, settled, files, nS3Get,
                   nOcrRequests, pipelineVars, storeVars>>

DispatchNext ==
    \/ Invoke
    \/ FetchSettles
    \/ Join
    \/ SingleResume
    \/ BackendResponds

\* one invocation of the handler
DispatchSpec == Init /\ [][DispatchNext]_vars

(***************************************************************************)
(* The S3 helpers.  objects is the set of locations <<bucket, key>> that   *)
(* hold the object; a behaviour is one call of one helper.                 *)
(***************************************************************************)
StoreKeys == {<<>>, <<"f">>, <<"d", "/", "f">>, <<"d", "/">>}
OptionalNames == {JUndefined, JString(<<"f">>), JString(<<"d", "/", "f">>), JString(<<"g">>)}
Folders == {<<>>, <<"d">>, <<"d", "/">>}
SourceBuckets == {<<>>, BucketName}
Buckets == {<<>>, BucketName, <<"B">>}

\* the bucket A holds the object under f, under d/f, under both or not at all
StoreInit ==
    /\ Start(EmptyEnv, 0)
    /\ DispatchIdle
    /\ \E objs \in SUBSET {<<BucketName, <<"f">> >>, <<BucketName, <<"d", "/", "f">> >>} :
         StoreWith(objs)

\* the catch of a helper: the promise is rejected with formatS3Error(error)
Reject(error) ==
    /\ spc' = "settled"
    /\ outcome' = Rejected(formatS3Error(error))

Source == <<call.bucket, call.sourceKey>>

\* lines 426-459: moveFileToBucket up to its first await
MoveFileToBucket ==
    /\ spc = "idle"
    /\ \E sourceBucketName \in SourceBuckets, sourceKey \in StoreKeys,
          destinationBucketName \in Buckets, destinationKey \in OptionalNames,
          preserveMetadata \in BOOLEAN :
         /\ call' = [fn |-> "moveFileToBucket", bucket |-> sourceBucketName,
                     sourceKey |-> sourceKey, preserveMetadata |-> preserveMetadata]
         /\ IF validateInputs(sourceBucketName, sourceKey) # NoError
              THEN /\ Reject(validateInputs(sourceBucketName, sourceKey))
                   /\ UNCHANGED <<destination, nCopy>>
            ELSE IF destinationBucketName = <<>>
              THEN /\ Reject(S3ServiceError("INVALID_INPUT"))
                   /\ UNCHANGED <<destination, nCopy>>
            ELSE /\ destination' = <<destinationBucketName, OrElse(destinationKey, sourceKey)>>
                 /\ spc' = IF preserveMetadata THEN "metadata" ELSE "copy"
                 /\ nCopy' = IF preserveMetadata THEN nCopy ELSE nCopy + 1
                 /\ UNCHANGED outcome
    /\ UNCHANGED <<objects, nDelete, pipelineVars, dispatchVars>>

\* lines 507-558: moveFileToFolder up to its first await
MoveFileToFolder ==
    /\ spc = "idle"
    /\ \E bucketName \in SourceBuckets, sourceKey \in StoreKeys,
          destinationFolder \in Folders, newFileName \in OptionalNames,
          preserveMetadata \in BOOLEAN :
         LET normalizedDestinationFolder ==
                 IF endsWith(destinationFolder, <<"/">>)
                   THEN destinationFolder ELSE Append(destinationFolder, "/")
             finalFileName == OrElse(newFileName, LastSegment(sourceKey))
             destinationKey == normalizedDestinationFolder \o finalFileName
         IN  /\ call' = [fn |-> "moveFileToFolder", bucket |-> bucketName,
                         sourceKey |-> sourceKey, preserveMetadata |-> preserveMetadata]
             /\ IF validateInputs(bucketName, sourceKey) # NoError
                  THEN /\ Reject(validateInputs(bucketName, sourceKey))
                       /\ UNCHANGED <<destination, nCopy>>
                ELSE IF destinationFolder = <<>> \/ finalFileName = <<>>
                        \/ sourceKey = destinationKey
                  THEN /\ Reject(S3ServiceError("INVALID_INPUT"))
                       /\ UNCHANGED <<destination, nCopy>>
                ELSE /\ destination' = <<bucketName, destinationKey>>
                     /\ spc' = IF preserveMetadata THEN "metadata" ELSE "copy"
                     /\ nCopy' = IF preserveMetadata THEN nCopy ELSE nCopy + 1
                     /\ UNCHANGED outcome
    /\ UNCHANGED <<objects, nDelete, pipelineVars, dispatchVars>>

\* lines 446-471 (545-570 in moveFileToFolder): the GetObject for the
\* metadata ends, its failure is only logged, and the copy is sent
MetadataSettles ==
    /\ spc = "metadata"
    /\ spc' = "copy"
    /\ nCopy' = nCopy + 1
    /\ UNCHANGED <<objects, call, destination, outcome, nDelete, pipelineVars, dispatchVars>>

\* S3 accepts a CopyObject when the source exists; a copy of an object onto
\* itself is accepted only with MetadataDirective REPLACE (line 468)
CopyAccepted ==
    /\ Source \in objects
    /\ destination # Source \/ call.preserveMetadata

\* the copy whose failure is ignored: the delete is sent in either case
CopySettlesDeleteAnyway ==
    /\ spc = "copy"
    /\ \/ /\ CopyAccepted
          /\ objects' = objects \cup {destination}
       \/ UNCHANGED objects
    /\ nDelete' = nDelete + 1
    /\ spc' = "delete"
    /\ UNCHANGED <<call, destination, outcome, nCopy, pipelineVars, dispatchVars>>

\* lines 471-479 (570-578): the CopyObject ends; after a success the
\* DeleteObject of the source is sent, a failure goes to the catch
CopySettles ==
    /\ spc = "copy"
    /\ \/ /\ CopyAccepted
          /\ objects' = objects \cup {destination}
          /\ nDelete' = nDelete + 1
          /\ spc' = "delete"
          /\ UNCHANGED outcome
       \/ /\ \E e \in SdkErrors : Reject(e)
          /\ UNCHANGED <<objects, nDelete>>
    /\ UNCHANGED <<call, destination, nCopy, pipelineVars, dispatchVars>>

\* lines 479-486 (578-585): the DeleteObject ends
DeleteSettles ==
    /\ spc = "delete"
    /\ \/ /\ objects' = objects \ {Source}
          /\ spc' = "sign"
          /\ UNCHANGED outcome
       \/ /\ \E e \in SdkErrors : Reject(e)
          /\ UNCHANGED objects
    /\ UNCHANGED <<call, destination, nCopy, nDelete, pipelineVars, dispatchVars>>

\* lines 486-495 (585-594): getSignedUrl ends and the move returns
SignSettles ==
    /\ spc = "sign"
    /\ \/ spc' = "settled" /\ outcome' = Resolved
       \/ \E e \in SdkErrors : Reject(e)
    /\ UNCHANGED <<objects, call, destination, nCopy, nDelete, pipelineVars, dispatchVars>>

\* lines 198-216: one call of getFileAsBuffer; the GetObject can deliver the
\* body only when the object is there
GetFileAsBuffer ==
    /\ spc = "idle"
    /\ \E bucketName \in SourceBuckets, key \in StoreKeys, r \in GetResults :
         /\ r = Delivered => <<bucketName, key>> \in objects
         /\ call' = [fn |-> "getFileAsBuffer", bucket |-> bucketName, sourceKey |-> key,
                     preserveMetadata |-> FALSE]
         /\ outcome' = getFileAsBuffer(bucketName, key, r)
    /\ spc' = "settled"
    /\ UNCHANGED <<objects, destination, nCopy, nDelete, pipelineVars, dispatchVars>>

\* lines 328-345: one call of getFileAsPresignedUrl
GetFileAsPresignedUrl ==
    /\ spc = "idle"
    /\ \E bucketName \in SourceBuckets, key \in StoreKeys :
         /\ call' = [fn |-> "getFileAsPresignedUrl", bucket |-> bucketName,
                     sourceKey |-> key, preserveMetadata |-> FALSE]
         /\ IF validateInputs(bucketName, key) # NoError
              THEN Reject(validateInputs(bucketName, key))
              ELSE \/ spc' = "settled" /\ outcome' = Resolved
                   \/ \E e \in SdkErrors : Reject(e)
    /\ UNCHANGED <<objects, destination, nCopy, nDelete, pipelineVars, dispatchVars>>

\* lines 354-395: one call of uploadFile
UploadFile ==
    /\ spc = "idle"
    /\ \E bucketName \in SourceBuckets, key \in StoreKeys :
         /\ call' = [fn |-> "uploadFile", bucket |-> bucketName, sourceKey |-> key,
                     preserveMetadata |-> FALSE]
         /\ IF validateInputs(bucketName, key) # NoError
              THEN Reject(validateInputs(bucketName, key)) /\ UNCHANGED objects
              ELSE \/ /\ objects' = objects \cup {<<bucketName, key>>}
                      /\ \/ spc' = "settled" /\ outcome' = Resolved
                         \/ \E e \in SdkErrors : Reject(e)
                   \/ /\ \E e \in SdkErrors : Reject(e)
                      /\ UNCHANGED objects
    /\ UNCHANGED <<destination, nCopy, nDelete, pipelineVars, dispatchVars>>

\* lines 402-415: one call of deleteFile
DeleteFile ==
    /\ spc = "idle"
    /\ \E bucketName \in SourceBuckets, key \in StoreKeys :
         /\ call' = [fn |-> "deleteFile", bucket |-> bucketName, sourceKey |-> key,
                     preserveMetadata |-> FALSE]
         /\ IF validateInputs(bucketName, key) # NoError
              THEN Reject(validateInputs(bucketName, key)) /\ UNCHANGED <<objects, nDelete>>
              ELSE /\ nDelete' = nDelete + 1
                   /\ \/ /\ objects' = objects \ {<<bucketName, key>>}
                         /\ spc' = "settled"
                         /\ outcome' = Resolved
                      \/ /\ \E e \in SdkErrors : Reject(e)
                         /\ UNCHANGED objects
    /\ UNCHANGED <<destination, nCopy, pipelineVars, dispatchVars>>

StoreNext ==
    \/ MoveFileToBucket
    \/ MoveFileToFolder
    \/ MetadataSettles
    \/ CopySettles
    \/ DeleteSettles
    \/ SignSettles
    \/ GetFileAsBuffer
    \/ GetFileAsPresignedUrl
    \/ UploadFile
    \/ DeleteFile

\* one call of an S3 helper on a bucket in any of its initial contents
StoreSpec == StoreInit /\ [][StoreNext]_vars

TypeOK ==
    /\ exitCode \in {NoExit, 0} \cup CmdFail
    /\ rc \in {0} \cup CmdFail
    /\ env \in Environments
    /\ BUILD_STATUS \in BuildStatuses \cup {""}
    /\ DEPLOYMENT_COMPLETE \in BOOLEAN
    /\ ELAPSED_TIME \in 0 .. MAX_WAIT_TIME
    /\ DEPLOYMENT_STATUS \in DeploymentStatuses
    /\ healthResponse \in HealthResponses \cup {NoResponse}
    /\ warned \in BOOLEAN
    /\ nBuildPolls \in 0 .. MaxBuildPolls
    /\ settleDelay \in {0, SettleSeconds}

(***************************************************************************)
(* Properties of the pipeline.                                             *)
(***************************************************************************)
InDeployLoop == pc \in {"deployTest", "deployPoll", "deploySleep"}
AfterDeployLoop == pc \in {"timeoutCheck", "settle", "health", "report", "summary", "DONE"}
FailedExit == {"BUILD_FAILED", "DEPLOY_FAILED", "ABORTED"}
MaxDeployPolls == MAX_WAIT_TIME \div PollInterval

\* C1: once a build poll has returned FAILED, FAULT, TIMED_OUT or STOPPED the
\* run has ended at that poll in BUILD_FAILED with status 1, update-service
\* was never called, no deployment poll and no health request was made, and
\* no step is taken from BUILD_FAILED.
BuildFailureHalts ==
    /\ [](BUILD_STATUS \in {"FAILED", "FAULT", "TIMED_OUT", "STOPPED"}
            => /\ pc = "BUILD_FAILED"
               /\ exitCode = 1
               /\ nForceRedeploy = 0
               /\ nDeployPolls = 0
               /\ nHealth = 0)
    /\ [][pc # "BUILD_FAILED"]_vars

BuildFailureWitness ==
    /\ pc = "BUILD_FAILED"
    /\ BUILD_STATUS = "STOPPED"
    /\ nBuildPolls = MaxBuildPolls

\* C2: update-service is called at most once; it has been called exactly once
\* in every state after the build loop was left on SUCCEEDED, and it is never
\* called unless the last build poll returned SUCCEEDED.
ForceRedeployExactlyOnce ==
    /\ nForceRedeploy <= 1
    /\ (BUILD_STATUS = "SUCCEEDED" /\ pc # "forceRedeploy") => nForceRedeploy = 1
    /\ nForceRedeploy > 0 => BUILD_STATUS = "SUCCEEDED"
    /\ pc = "forceRedeploy" => BUILD_STATUS = "SUCCEEDED" /\ nForceRedeploy = 0

ForceRedeployWitness ==
    /\ pc = "DONE"
    /\ BUILD_STATUS = "SUCCEEDED"
    /\ nBuildPolls = MaxBuildPolls
    /\ nForceRedeploy = 1

\* C3 as stated: the exit status is 1 exactly when the run ended in
\* BUILD_FAILED or DEPLOY_FAILED, and 0 when it reached DONE.
ExitOneIffStageFailed ==
    /\ (exitCode = 1) <=> (pc \in {"BUILD_FAILED", "DEPLOY_FAILED"})
    /\ pc = "DONE" => exitCode = 0

\* C3 amended: the exit status is 1 whenever the run ended in BUILD_FAILED or
\* DEPLOY_FAILED, it is 0 exactly when the run reached DONE (deploy timeout
\* and any health result included), and a run ended by a failing command has
\* that command's non-zero status.
ExitStatusByOutcome ==
    /\ pc \in {"BUILD_FAILED", "DEPLOY_FAILED"} => exitCode = 1
    /\ (pc = "DONE") <=> (exitCode = 0)
    /\ pc = "ABORTED" => exitCode \in CmdFail
    /\ (pc \notin Terminal) <=> (exitCode = NoExit)

ExitStatusWitness ==
    /\ pc = "DONE"
    /\ exitCode = 0
    /\ warned
    /\ HEALTH_CHECK = "unhealthy"

\* C4: when the deployment loop is left at MAX_WAIT_TIME without convergence,
\* the warning is printed, no later step ends the run in failure, the health
\* request is made and the run reaches DONE with status 0.
TimeoutIsAdvisory ==
    /\ []((AfterDeployLoop /\ ~DEPLOYMENT_COMPLETE)
            => /\ ELAPSED_TIME = MAX_WAIT_TIME
               /\ exitCode \in {NoExit, 0}
               /\ pc # "timeoutCheck" => warned
               /\ pc \in {"report", "summary", "DONE"} => nHealth = 1)
    /\ (pc = "timeoutCheck" /\ ~DEPLOYMENT_COMPLETE)
          ~> (pc = "DONE" /\ exitCode = 0 /\ warned /\ nHealth = 1)

TimeoutWitness ==
    /\ pc = "DONE"
    /\ ~DEPLOYMENT_COMPLETE
    /\ ELAPSED_TIME = MAX_WAIT_TIME
    /\ ROLLOUT_STATE = "IN_PROGRESS"
    /\ warned
    /\ nHealth = 1
    /\ exitCode = 0

\* C5: a deployment poll that returns rolloutState FAILED ends the run at that
\* poll in DEPLOY_FAILED with status 1 whatever the two counts are; no step is
\* taken from DEPLOY_FAILED and no health request was made.
RolloutFailedEndsPolling ==
    /\ [][(pc = "deployPoll" /\ pc' # "ABORTED"
             /\ DEPLOYMENT_STATUS'.RolloutState = "FAILED")
            => (pc' = "DEPLOY_FAILED" /\ exitCode' = 1)]_vars
    /\ [](pc = "DEPLOY_FAILED" => nHealth = 0 /\ ~DEPLOYMENT_COMPLETE)
    /\ [][pc # "DEPLOY_FAILED"]_vars

RolloutFailedWitness ==
    /\ pc = "DEPLOY_FAILED"
    /\ DEPLOYMENT_STATUS.RolloutState = "FAILED"
    /\ DEPLOYMENT_STATUS.Running = DEPLOYMENT_STATUS.Desired
    /\ DEPLOYMENT_STATUS.Desired > 0

\* C6: a deployment poll that returned a status ends the run only when that
\* status has rolloutState FAILED; the loop test, the sleep and the timeout
\* check never end the run.
OnlyRolloutFailedIsFatal ==
    /\ [][(pc = "deployPoll" /\ pc' \in Terminal /\ pc' # "ABORTED")
            => (ROLLOUT_STATE' = "FAILED" /\ DEPLOYMENT_STATUS'.RolloutState = "FAILED")]_vars
    /\ [][(pc \in {"deployTest", "deploySleep", "timeoutCheck"}) => (pc' \notin Terminal)]_vars
    /\ [](pc = "DEPLOY_FAILED" => ROLLOUT_STATE = "FAILED")

OnlyRolloutFailedWitness ==
    /\ pc = "settle"
    /\ ~DEPLOYMENT_COMPLETE
    /\ nDeployPolls = MaxDeployPolls
    /\ DEPLOYMENT_STATUS = [Running |-> 0, Desired |-> 0, RolloutState |-> "COMPLETED"]

\* C7: from the start of step 8 no step ends the run in failure, and the run
\* reaches DONE with status 0 after exactly one health request, whatever the
\* request returned.
HealthIsAdvisory ==
    /\ [][(pc \in {"settle", "health", "report", "summary"}) => (pc' \notin FailedExit)]_vars
    /\ [](pc = "DONE" => exitCode = 0 /\ nHealth = 1)
    /\ (pc = "settle") ~> (pc = "DONE" /\ exitCode = 0)

HealthAdvisoryWitness ==
    /\ pc = "DONE"
    /\ HEALTH_CHECK = "failed"
    /\ DEPLOYMENT_COMPLETE
    /\ exitCode = 0

\* C8: a deployment poll that returned a status sets DEPLOYMENT_COMPLETE
\* exactly when rolloutState is COMPLETED, runningCount equals desiredCount
\* and desiredCount is not 0.
ConvergedIff ==
    [][(pc = "deployPoll" /\ pc' # "ABORTED")
         => (DEPLOYMENT_COMPLETE'
               <=> /\ DEPLOYMENT_STATUS'.RolloutState = "COMPLETED"
                   /\ DEPLOYMENT_STATUS'.Running = DEPLOYMENT_STATUS'.Desired
                   /\ DEPLOYMENT_STATUS'.Desired # 0)]_vars

ConvergedWitness ==
    /\ pc = "deploySleep"
    /\ DEPLOYMENT_COMPLETE
    /\ DEPLOYMENT_STATUS = [Running |-> 1, Desired |-> 1, RolloutState |-> "COMPLETED"]

\* C9 as stated: every run reaches BUILD_FAILED, DEPLOY_FAILED or DONE (or is
\* ended by a failing command) when every command returns.
Terminates == <>(pc \in Terminal)

\* C10: describe-services is called at most MAX_WAIT_TIME / 10 = 60 times; a
\* loop that never saw convergence or FAILED is left after exactly 60 polls
\* with ELAPSED_TIME = MAX_WAIT_TIME, and the loop is always left.
DeployPollsBounded ==
    /\ [](nDeployPolls <= MaxDeployPolls)
    /\ []((pc = "timeoutCheck" /\ ~DEPLOYMENT_COMPLETE)
            => (nDeployPolls = 60 /\ ELAPSED_TIME = MAX_WAIT_TIME))
    /\ InDeployLoop ~> ~InDeployLoop

DeployPollsWitness ==
    /\ pc = "timeoutCheck"
    /\ ~DEPLOYMENT_COMPLETE
    /\ nDeployPolls = 60
    /\ ROLLOUT_STATE = "null"

BuildVerdicts == {"SUCCEEDED", "FAILED", "FAULT", "TIMED_OUT", "STOPPED"}
NumericallyConverged(d) ==
    /\ d.RolloutState = "COMPLETED"
    /\ d.Running = d.Desired
    /\ d.Desired # 0

\* C11: when batch-get-builds or describe-services itself returns non-zero,
\* the run ends at that tick with that non-zero status and no variable is
\* updated; no step follows, so update-service is not called after a failed
\* build probe and no health request is made after a failed deployment probe.
ProbeFailureAborts ==
    /\ [][(pc \in {"buildPoll", "deployPoll"} /\ rc' # 0)
            => /\ pc' = "ABORTED"
               /\ exitCode' = rc'
               /\ exitCode' # 0
               /\ BUILD_STATUS' = BUILD_STATUS
               /\ DEPLOYMENT_STATUS' = DEPLOYMENT_STATUS
               /\ DEPLOYMENT_COMPLETE' = DEPLOYMENT_COMPLETE]_vars
    /\ [][pc # "ABORTED"]_vars
    /\ [](pc = "ABORTED"
            => /\ nHealth = 0
               /\ exitCode \notin {0, NoExit}
               /\ BUILD_STATUS # "SUCCEEDED" => nForceRedeploy = 0)

ProbeFailureWitness ==
    /\ pc = "ABORTED"
    /\ rc # 0
    /\ nDeployPolls = 2
    /\ ROLLOUT_STATE = "IN_PROGRESS"
    /\ nHealth = 0

\* C12: start-build and update-service are each called at most once in a
\* run; a call that fails ends the run and is not issued again.
TriggersNeverRetried ==
    /\ [](nStartBuild <= 1 /\ nForceRedeploy <= 1)
    /\ [][(pc \in {"startBuild", "forceRedeploy"} /\ rc' # 0) => pc' = "ABORTED"]_vars
    /\ [][(nStartBuild' # nStartBuild) => (pc = "startBuild" /\ nStartBuild = 0)]_vars
    /\ [][(nForceRedeploy' # nForceRedeploy) => (pc = "forceRedeploy" /\ nForceRedeploy = 0)]_vars

TriggerFailedWitness ==
    /\ pc = "ABORTED"
    /\ nStartBuild = 1
    /\ nBuildPolls = 0
    /\ rc # 0

\* C13: no build poll is made once update-service has been called, no
\* deployment poll before update-service has returned, and no health
\* request while the deployment loop runs: the loop has ended by convergence
\* or by the elapsed time before curl is called.
StagesInOrder ==
    /\ [](pc \in {"buildPoll", "buildSleep"}
            => (nForceRedeploy = 0 /\ nDeployPolls = 0 /\ nHealth = 0))
    /\ []((pc = "deployPoll" \/ nDeployPolls > 0) => nForceRedeploy = 1)
    /\ [](InDeployLoop => nHealth = 0)
    /\ []((pc = "health" \/ nHealth > 0)
            => (DEPLOYMENT_COMPLETE \/ ELAPSED_TIME >= MAX_WAIT_TIME))
    /\ [][(nHealth' # nHealth) => (nDeployPolls' = nDeployPolls /\ nDeployPolls > 0)]_vars

StagesWitness ==
    /\ pc = "report"
    /\ nHealth = 1
    /\ nDeployPolls = 3
    /\ DEPLOYMENT_COMPLETE
    /\ nForceRedeploy = 1

\* C14 as stated: after the health request, a transport error, a status
\* outside 200..299 or a body that is not JSON with a status field never
\* gives the healthy verdict and never ends the run.
HealthUnknownOnError ==
    (/\ nHealth > 0
     /\ \/ healthResponse.transport = "error"
        \/ healthResponse.http \notin 200 .. 299
        \/ healthResponse.kind # "object")
      => (HEALTH_CHECK # "healthy" /\ pc # "ABORTED")

\* C15 as stated: with a configuration value missing from the environment
\* no remote call is ever made.
ConfigErrorIsFatal ==
    (\E n \in EnvNames : env[n] = "")
      => (nUpload = 0 /\ nUpdateProject = 0 /\ nStartBuild = 0 /\ nForceRedeploy = 0)

\* C15 amended: a value that is unset or empty in the environment never
\* fails the run; lines 12-14 put the default in its place (a set value is
\* kept), the configuration step always goes on to step 1, and the remote
\* calls are made as in a run with the value set.
ConfigDefaultsApplied ==
    /\ [](pc # "config"
            => /\ AWS_REGION = (IF env["AWS_REGION"] = "" THEN "us-east-1" ELSE env["AWS_REGION"])
               /\ AWS_ACCOUNT_ID = (IF env["AWS_ACCOUNT_ID"] = "" THEN "098305555551"
                                    ELSE env["AWS_ACCOUNT_ID"])
               /\ AWS_PROFILE = (IF env["AWS_PROFILE"] = "" THEN "miketran+SA"
                                 ELSE env["AWS_PROFILE"])
               /\ "" \notin {AWS_REGION, AWS_ACCOUNT_ID, AWS_PROFILE})
    /\ [][(pc = "config") => (pc' = "start" /\ exitCode' = NoExit)]_vars

ConfigDefaultsWitness ==
    /\ pc = "updateProject"
    /\ nUpload = 1
    /\ env["AWS_PROFILE"] = ""
    /\ env["AWS_REGION"] = "custom"
    /\ AWS_PROFILE = "miketran+SA"
    /\ AWS_REGION = "custom"

\* C16: the warning of line 130 is printed exactly when the loop was left
\* with no convergence seen: then all MAX_WAIT_TIME / 10 polls were made and
\* the last status is neither converged nor FAILED; a run that passed the
\* check without the warning converged, on the last permitted poll too; a
\* run that ended in DEPLOY_FAILED never printed it.
TimeoutIffNoVerdict ==
    /\ warned => /\ ~DEPLOYMENT_COMPLETE
                 /\ ELAPSED_TIME = MAX_WAIT_TIME
                 /\ nDeployPolls = MaxDeployPolls
                 /\ DEPLOYMENT_STATUS.RolloutState # "FAILED"
                 /\ ~NumericallyConverged(DEPLOYMENT_STATUS)
    /\ (pc \in {"settle", "health", "report", "summary", "DONE"} /\ ~warned)
         => (DEPLOYMENT_COMPLETE /\ NumericallyConverged(DEPLOYMENT_STATUS))
    /\ pc = "DEPLOY_FAILED" => ~warned

LastPollConvergedWitness ==
    /\ pc = "settle"
    /\ DEPLOYMENT_COMPLETE
    /\ ~warned
    /\ nDeployPolls = 60
    /\ ELAPSED_TIME = MAX_WAIT_TIME

\* C17 as stated: the build loop never sleeps after SUCCEEDED or a failure
\* status, and once a deployment poll has seen convergence the loop makes
\* no further probe and spends no further time before it is left.
LoopLeftAtOnce ==
    /\ [](pc = "buildSleep" => BUILD_STATUS \notin BuildVerdicts)
    /\ [][(InDeployLoop /\ DEPLOYMENT_COMPLETE)
            => (nDeployPolls' = nDeployPolls /\ stageClock' = stageClock)]_vars

\* C18 as stated: at every loop test ELAPSED_TIME is the wall-clock time of
\* the stage, and a stage that never saw a verdict is left no later than
\* MAX_WAIT_TIME plus one poll interval.
ElapsedIsWallClock ==
    /\ pc = "deployTest" => ELAPSED_TIME = stageClock
    /\ (pc = "timeoutCheck" /\ ~DEPLOYMENT_COMPLETE)
         => stageClock <= MAX_WAIT_TIME + PollInterval

\* C19: a build poll that returned a status other than SUCCEEDED, FAILED,
\* FAULT, TIMED_OUT and STOPPED is followed by the sleep and the sleep by
\* another poll, however many polls were made; the build stage is only left
\* on one of the five statuses (or by a failing command).
BuildLoopUnbounded ==
    /\ [][(pc = "buildPoll" /\ rc' = 0 /\ BUILD_STATUS' \notin BuildVerdicts)
            => pc' = "buildSleep"]_vars
    /\ [][(pc = "buildSleep") => (pc' = "buildPoll")]_vars
    /\ [](pc = "BUILD_FAILED" => BUILD_STATUS \in BuildVerdicts \ {"SUCCEEDED"})
    /\ [](nForceRedeploy > 0 \/ pc = "forceRedeploy" => BUILD_STATUS = "SUCCEEDED")

BuildLoopWitness ==
    /\ pc = "buildSleep"
    /\ nBuildPolls = MaxBuildPolls
    /\ BUILD_STATUS = "None"

\* C20: the health request is only made after the 30 second sleep, and the
\* sleep only after the deployment loop was left, with or without the
\* timeout warning.
SettleBeforeHealth ==
    /\ [](nHealth > 0 => settleDelay = 30)
    /\ [](settleDelay > 0 => (~InDeployLoop /\ nDeployPolls > 0))
    /\ [][(nHealth' # nHealth) => (settleDelay = SettleSeconds /\ pc = "health")]_vars
    /\ [][(settleDelay' # settleDelay)
            => (pc = "settle" /\ nHealth = 0 /\ nDeployPolls' = nDeployPolls)]_vars

SettleWitness ==
    /\ pc = "report"
    /\ warned
    /\ settleDelay = 30
    /\ nHealth = 1

(***************************************************************************)
(* C21: in both poll loops a probe that returned is followed, in the same  *)
(* pass and before the verdict is acted upon, by exactly one progress line *)
(* that carries the status just read, also when the verdict ends the loop  *)
(* or the run; a pass whose probe failed writes none, and nothing outside  *)
(* a pass writes a progress line.                                          *)
(***************************************************************************)
ProbeThenNotify ==
    [][/\ (pc = "buildPoll" /\ rc' = 0) =>
            /\ progress' = <<"Build status", BUILD_STATUS'>>
            /\ nBuildNotes' = Min(nBuildNotes + 1, MaxBuildPolls)
       /\ (pc = "deployPoll" /\ rc' = 0) =>
            /\ progress' = <<"Deployment", RUNNING_COUNT', DESIRED_COUNT', ROLLOUT_STATE'>>
            /\ nDeployNotes' = nDeployNotes + 1
       /\ (pc \notin {"buildPoll", "deployPoll"} \/ rc' # 0) =>
            UNCHANGED <<progress, nBuildNotes, nDeployNotes>>]_vars

\* a run that stopped on a failed rollout after several passes of both loops:
\* every pass wrote its line, the last one with the failing state
ProbeThenNotifyWitness ==
    /\ pc = "DEPLOY_FAILED"
    /\ nBuildNotes = MaxBuildPolls
    /\ nDeployPolls >= 2
    /\ nDeployNotes = nDeployPolls
    /\ progress = <<"Deployment", RUNNING_COUNT, DESIRED_COUNT, "FAILED">>

(***************************************************************************)
(* C22: a run whose deployment loop timed out prints the timeout warning   *)
(* and never the success banner, whatever the health check answers.        *)
(***************************************************************************)
TimedOutNeverSuccess ==
    "DeploymentTimedOut" \in reported => "Success" \notin reported

BatchItems == event.s3Keys.items
SentToBackend == nOcrRequests.batch + nOcrRequests.image + nOcrRequests.pdf
InMove == call.fn \in {"moveFileToBucket", "moveFileToFolder"}

(***************************************************************************)
(* C23: in batch mode the fetch of every key is started by the invocation  *)
(* itself, before any fetch has settled; at most one batch request is      *)
(* sent, only when every fetch is resolved; once a fetch is rejected no    *)
(* request is sent and the handler returns an error response.              *)
(***************************************************************************)
BatchJoinedBeforeRequest ==
    (hpc # "idle" /\ IsBatch(event)) =>
        /\ Len(fetches) = Len(BatchItems)
        /\ nS3Get = Cardinality({i \in DOMAIN BatchItems :
                                   validateInputs(FILES_BUCKET, BatchItems[i]) = NoError})
        /\ nOcrRequests.batch <= 1
        /\ nOcrRequests.image = 0 /\ nOcrRequests.pdf = 0
        /\ nOcrRequests.batch = 1 => \A i \in DOMAIN fetches : fetches[i] = Resolved
        /\ (\E i \in DOMAIN fetches : fetches[i].state = "rejected") =>
              /\ nOcrRequests.batch = 0
              /\ hpc \in {"joining", "returned"}
              /\ hpc = "returned" => response.statusCode >= 400

\* a batch of two keys whose request was sent after both fetches and answered
BatchJoinedWitness ==
    /\ IsBatch(event)
    /\ Len(fetches) = 2
    /\ Len(settled) = 2
    /\ nOcrRequests.batch = 1
    /\ hpc = "returned"
    /\ response.statusCode = 200

(***************************************************************************)
(* C24: in both moves the delete of the source is sent only by the step in *)
(* which the copy succeeded (the destination then holds the object); a     *)
(* copy that fails sends no delete and the bucket is as it was before the  *)
(* call.                                                                   *)
(***************************************************************************)
DeleteOnlyAfterCopy ==
    [][/\ (InMove /\ nDelete' # nDelete) =>
            /\ spc = "copy"
            /\ nDelete' = nDelete + 1
            /\ destination \in objects'
       /\ (InMove /\ spc = "copy" /\ spc' = "settled") =>
            /\ outcome'.state = "rejected"
            /\ nDelete' = nDelete
            /\ objects' = objects
       /\ spc' \in {"metadata", "copy"} => (objects' = objects /\ nDelete' = 0)]_vars

\* a move whose copy failed: one copy, no delete, the source still there
CopyFailedWitness ==
    /\ InMove
    /\ spc = "settled"
    /\ outcome.state = "rejected"
    /\ nCopy = 1
    /\ nDelete = 0
    /\ Source \in objects

(***************************************************************************)
(* C25: when a move has returned successfully the object is at the         *)
(* destination it returned, for every combination of arguments.            *)
(***************************************************************************)
MovedObjectAtDestination ==
    (InMove /\ spc = "settled" /\ outcome = Resolved) => destination \in objects

(***************************************************************************)
(* C26: a helper called with an empty bucket name or an empty key rejects  *)
(* with an S3ServiceError of type INVALID_INPUT.                           *)
(***************************************************************************)
EmptyInputIsInvalidInput ==
    (spc = "settled" /\ (call.bucket = <<>> \/ call.sourceKey = <<>>)) =>
        outcome = Rejected(S3ServiceError("INVALID_INPUT"))

(***************************************************************************)
(* C27: the handler always returns a response; its status is 200 only      *)
(* after a backend request, and 400 whenever the parsed body supplies      *)
(* neither s3Key nor s3Keys.                                               *)
(***************************************************************************)
HandlerStatusByCase ==
    hpc = "returned" =>
        /\ response.statusCode \in {200, 400, 404, 422, 500}
        /\ response.statusCode = 200 => SentToBackend = 1
        /\ (\/ event.parsed = "null"
            \/ /\ event.parsed = "object"
               /\ ~Truthy(event.s3Key)
               /\ ~Truthy(event.s3Keys)) => response.statusCode = 400

(***************************************************************************)
(* C28: in single-file mode a key with none of the supported extensions    *)
(* is refused with status 400 and neither an S3 fetch nor a backend        *)
(* request is made for it.                                                 *)
(***************************************************************************)
UnsupportedRefusedFirst ==
    (/\ hpc # "idle"
     /\ event.parsed = "object"
     /\ ~IsBatch(event)
     /\ Truthy(event.s3Key)
     /\ ~isPdf(event.s3Key.chars)
     /\ ~isImage(event.s3Key.chars)) =>
        /\ nS3Get = 0
        /\ SentToBackend = 0
        /\ hpc = "returned" /\ response.statusCode = 400

(***************************************************************************)
(* C29: the files of the batch request are the files of the keys, one per  *)
(* key and in the order of s3Keys, whatever order the fetches settled in.  *)
(***************************************************************************)
FilesInRequestOrder ==
    nOcrRequests.batch = 1 =>
        /\ Len(files) = Len(BatchItems)
        /\ \A i \in DOMAIN files :
             /\ files[i].buffer = BatchItems[i]
             /\ files[i].filename =
                  IF LastSegment(BatchItems[i]) = <<>> THEN BatchItems[i]
                  ELSE LastSegment(BatchItems[i])

\* two different keys whose fetches settled in the reverse order
FilesInRequestOrderWitness ==
    /\ nOcrRequests.batch = 1
    /\ settled = <<2, 1>>
    /\ BatchItems[1] # BatchItems[2]
====
